---------------------------- MODULE Spec2Model ----------------------------
(***************************************************************************)
(* A model of the Scryfall -> Lackey CCG fetcher (fetch_set.py) and of the *)
(* stand-alone image downloader (download_images.py).                      *)
(*                                                                         *)
(* Text is modelled by TLA+ strings, character by character: a line of the *)
(* output file is the string the code writes, with its tab separators and  *)
(* its trailing newline, and a file is the list readlines() returns.       *)
(***************************************************************************)
EXTENDS Integers, Sequences, FiniteSets, TLC

VARIABLES
    \* ---- configuration and environment, fixed during a behaviour ----
    script,          \* which program runs: "fetch_set" or "download_images"
    SET_CODES,       \* fetch_set.py:101 (config.txt); download_images.py: sys.argv[1:]
    DOWNLOAD_IMAGES, \* fetch_set.py:101
    OUTPUT_FILE,     \* fetch_set.py:101 (config.txt output_file, default custom.txt)
    api,             \* the card-search API: set code -> list of page responses
    \* ---- the running process ----
    pc,              \* position of the running program
    run,             \* number of the process run (a re-run starts the program again)
    idx,             \* main's loop index i over SET_CODES (1-based)
    successful_sets, \* main counters
    failed_sets,
    exit_code,       \* -1 while the process runs, then its exit status
    page,            \* fetch_set_cards: page
    params_page,     \* fetch_set_cards: params["page"], 0 while the key is absent
    all_cards,       \* fetch_set_cards: all_cards, then the caller's cards
    has_more,        \* fetch_set_cards: has_more
    was_newly_created, \* main: second component of write_set_file's result
    card_i,          \* download_set_images: number of cards already processed
    successful,      \* download_set_images counters
    failed,
    skipped,
    \* ---- the file system ----
    outExists,       \* whether sets/OUTPUT_FILE exists
    outLines,        \* its contents, as readlines() returns them
    manifestExists,  \* whether ListOfCardDataFiles.txt exists
    manifest,        \* its contents, one string
    images,          \* the paths of the image files that exist
    \* ---- observation (history) variables, read by the properties only ----
    lastOp,          \* the operation that acted last
    calls,           \* how many times an operation called on its own has run
    requests,        \* page requests issued in this run: <<set index, page>>
    fetch_error,     \* whether a page request of the current set failed
    snap,            \* files and counters as they were when the current set started
    prevOut,         \* the output file before the last write or deduplication
    prevManifest,    \* the manifest before the last update_list_file, and its argument
    exitFile,        \* the output file at the end of the previous run
    populated,       \* whether every target image existed when the download loop began
    imageRequests,   \* image requests issued since the download loop began
    imageWrites,     \* image files written since the download loop began
    lastDownload,    \* the last download_card_image call and how it was counted
    fn_input,        \* a field function called on its own: its name and argument
    fn_output        \* what that call returned or raised

cfgVars   == <<script, SET_CODES, DOWNLOAD_IMAGES, OUTPUT_FILE, api>>
mainVars  == <<idx, successful_sets, failed_sets, exit_code>>
fetchVars == <<page, params_page, all_cards, has_more>>
dlVars    == <<card_i, successful, failed, skipped>>
outVars   == <<outExists, outLines>>
manVars   == <<manifestExists, manifest>>
dlHist    == <<populated, imageRequests, imageWrites, lastDownload>>
fnVars    == <<fn_input, fn_output>>

vars == <<cfgVars, pc, run, mainVars, fetchVars, was_newly_created, dlVars,
          outVars, manVars, images, lastOp, calls, requests, fetch_error, snap,
          prevOut, prevManifest, exitFile, dlHist, fnVars>>

-----------------------------------------------------------------------------
(* Strings *)

Char(s, i) == SubSeq(s, i, i)

TAB == "\t"
NL  == "\n"

\* Python's str.isspace characters that occur in the model's texts.
Whitespace == {" ", "\t", "\n", "\r"}

\* s.find(sub, i) with 1-based positions: the first position >= i where sub
\* occurs in s, or 0.
IndexFrom(s, sub, i) ==
    LET found == {k \in i..(Len(s) - Len(sub) + 1) :
                     SubSeq(s, k, k + Len(sub) - 1) = sub}
    IN  IF found = {} THEN 0
        ELSE CHOOSE k \in found : \A j \in found : k <= j

\* sub in s
Contains(s, sub) == IndexFrom(s, sub, 1) # 0

\* the positions of the one-character string c in s
Positions(s, c) == {k \in 1..Len(s) : SubSeq(s, k, k) = c}

RECURSIVE SplitAt(_, _, _)
\* the pieces of s between the positions seps (in increasing order), from
\* position start on
SplitAt(s, seps, start) ==
    LET later == {k \in seps : k >= start}
    IN  IF later = {} THEN <<SubSeq(s, start, Len(s))>>
        ELSE LET k == CHOOSE x \in later : \A y \in later : x <= y
             IN  <<SubSeq(s, start, k - 1)>> \o SplitAt(s, seps, k + 1)

\* s.split(sep) for a one-character sep
Split(s, sep) == SplitAt(s, Positions(s, sep), 1)

RECURSIVE Join(_, _)
\* sep.join(fields)
Join(fields, sep) ==
    IF Len(fields) = 0 THEN ""
    ELSE IF Len(fields) = 1 THEN fields[1]
    ELSE fields[1] \o sep \o Join(Tail(fields), sep)

RECURSIVE RStripNL(_)
\* s.rstrip('\n')
RStripNL(s) ==
    IF Len(s) > 0 /\ Char(s, Len(s)) = NL THEN RStripNL(SubSeq(s, 1, Len(s) - 1))
    ELSE s

\* s.strip() == ""
IsBlank(s) == \A i \in 1..Len(s) : SubSeq(s, i, i) \in Whitespace

RECURSIVE Reverse(_)
Reverse(q) == IF q = <<>> THEN <<>> ELSE Reverse(Tail(q)) \o <<Head(q)>>

-----------------------------------------------------------------------------
(* deduplicate_output_file *)

\* parts = line.rstrip('\n').split('\t')
Parts(line) == Split(RStripNL(line), TAB)

\* key = (name, image_file)
DedupKey(parts) == <<parts[1], parts[3]>>

RECURSIVE DataStart(_, _)
\* the while loop of lines 493-497: the first position (1-based) at or after i
\* that does not hold a blank line
DataStart(lines, i) ==
    IF i <= Len(lines) /\ IsBlank(lines[i]) THEN DataStart(lines, i + 1) ELSE i

RECURSIVE ScanReversed(_, _, _, _, _)
\* the for loop of lines 503-513 over reversed(lines[data_start:]); gives
\* unique_cards as it stands before unique_cards.reverse()
ScanReversed(lines, i, data_start, seen_keys, unique_cards) ==
    IF i < data_start THEN unique_cards
    ELSE LET parts == Parts(lines[i])
         IN  IF Len(parts) >= 3 /\ DedupKey(parts) \notin seen_keys
             THEN ScanReversed(lines, i - 1, data_start,
                               seen_keys \cup {DedupKey(parts)},
                               Append(unique_cards, lines[i]))
             ELSE ScanReversed(lines, i - 1, data_start, seen_keys, unique_cards)

RECURSIVE ScanForward(_, _, _, _, _)
\* the same loop run over lines[data_start:] without reversed()
ScanForward(lines, i, data_start, seen_keys, unique_cards) ==
    IF i > Len(lines) THEN unique_cards
    ELSE LET parts == Parts(lines[i])
         IN  IF Len(parts) >= 3 /\ DedupKey(parts) \notin seen_keys
             THEN ScanForward(lines, i + 1, data_start,
                              seen_keys \cup {DedupKey(parts)},
                              Append(unique_cards, lines[i]))
             ELSE ScanForward(lines, i + 1, data_start, seen_keys, unique_cards)

\* Mutant: the scan forgets reversed() but still reverses its result.
DedupUniqueForward(lines, data_start) ==
    Reverse(ScanForward(lines, data_start, data_start, {}, <<>>))

\* Mutant: the scan forgets reversed() and the final reverse(): the first
\* occurrence of each key is kept.
DedupUniqueFirst(lines, data_start) ==
    ScanForward(lines, data_start, data_start, {}, <<>>)

RECURSIVE ScanKeepShort(_, _, _, _, _)
\* the loop of lines 503-513 with the test len(parts) >= 3 guarding the key
\* only: a line of fewer fields is appended as it is
ScanKeepShort(lines, i, data_start, seen_keys, unique_cards) ==
    IF i < data_start THEN unique_cards
    ELSE LET parts == Parts(lines[i])
         IN  IF Len(parts) < 3
             THEN ScanKeepShort(lines, i - 1, data_start, seen_keys,
                                Append(unique_cards, lines[i]))
             ELSE IF DedupKey(parts) \notin seen_keys
             THEN ScanKeepShort(lines, i - 1, data_start,
                                seen_keys \cup {DedupKey(parts)},
                                Append(unique_cards, lines[i]))
             ELSE ScanKeepShort(lines, i - 1, data_start, seen_keys, unique_cards)

\* Mutant: lines of fewer than three fields are kept.
DedupUniqueKeepShort(lines, data_start) ==
    Reverse(ScanKeepShort(lines, Len(lines), data_start, {}, <<>>))

\* unique_cards after lines 501-516
DedupUnique(lines, data_start) ==
    Reverse(ScanReversed(lines, Len(lines), data_start, {}, <<>>))

\* The file contents deduplicate_output_file leaves, given the contents it read.
deduplicate_output_file(lines) ==
    IF lines = <<>> THEN lines
    ELSE LET data_start == DataStart(lines, 2)
         IN  <<lines[1]>> \o SubSeq(lines, 2, data_start - 1)
                          \o DedupUnique(lines, data_start)

-----------------------------------------------------------------------------
(* Characters *)

\* The characters of the model's texts in code-point order (Python compares
\* one-character strings by code point).
CodePointOrder == " ()-/0123456789ABCDEFGHIJKLMNOPQRSTUVWXYZ[]abcdefghijklmnopqrstuvwxyz{|}"

OrdOf == [c \in {Char(CodePointOrder, i) : i \in 1..Len(CodePointOrder)} |->
             CHOOSE i \in 1..Len(CodePointOrder) : Char(CodePointOrder, i) = c]

\* ord(c), up to an increasing renumbering
Ord(c) == OrdOf[c]

DigitChars == "0123456789"
LowerChars == "abcdefghijklmnopqrstuvwxyz"
UpperChars == "ABCDEFGHIJKLMNOPQRSTUVWXYZ"

DigitOf == [c \in {Char(DigitChars, i) : i \in 1..Len(DigitChars)} |->
               (CHOOSE i \in 1..Len(DigitChars) : Char(DigitChars, i) = c) - 1]

\* char.isdigit()
IsDigit(c) == c \in DOMAIN DigitOf

\* int(c) for a digit c
DigitValue(c) == DigitOf[c]

UpperOf == [c \in {Char(LowerChars, i) : i \in 1..Len(LowerChars)} |->
               Char(UpperChars, CHOOSE i \in 1..Len(LowerChars) : Char(LowerChars, i) = c)]

LowerOf == [c \in {Char(UpperChars, i) : i \in 1..Len(UpperChars)} |->
               Char(LowerChars, CHOOSE i \in 1..Len(UpperChars) : Char(UpperChars, i) = c)]

UpperChar(c) == IF c \in DOMAIN UpperOf THEN UpperOf[c] ELSE c

LowerChar(c) == IF c \in DOMAIN LowerOf THEN LowerOf[c] ELSE c

RECURSIVE UpperFrom(_, _)
UpperFrom(s, i) ==
    IF i > Len(s) THEN "" ELSE UpperChar(SubSeq(s, i, i)) \o UpperFrom(s, i + 1)

RECURSIVE LowerFrom(_, _)
LowerFrom(s, i) ==
    IF i > Len(s) THEN "" ELSE LowerChar(SubSeq(s, i, i)) \o LowerFrom(s, i + 1)

\* s.upper()
Upper(s) == UpperFrom(s, 1)

\* s.lower()
Lower(s) == LowerFrom(s, 1)

RECURSIVE IntToStr(_)
\* str(n) for n >= 0
IntToStr(n) ==
    IF n < 10 THEN Char(DigitChars, n + 1)
    ELSE IntToStr(n \div 10) \o Char(DigitChars, (n % 10) + 1)

RECURSIVE LStrip(_)
LStrip(s) ==
    IF Len(s) > 0 /\ Char(s, 1) \in Whitespace THEN LStrip(SubSeq(s, 2, Len(s))) ELSE s

RECURSIVE RStrip(_)
RStrip(s) ==
    IF Len(s) > 0 /\ Char(s, Len(s)) \in Whitespace
    THEN RStrip(SubSeq(s, 1, Len(s) - 1)) ELSE s

\* s.strip()
Strip(s) == LStrip(RStrip(s))

RECURSIVE Replace(_, _, _)
\* s.replace(old, new), every occurrence, left to right
Replace(s, old, new) ==
    LET k == IndexFrom(s, old, 1)
    IN  IF k = 0 THEN s
        ELSE SubSeq(s, 1, k - 1) \o new
               \o Replace(SubSeq(s, k + Len(old), Len(s)), old, new)

-----------------------------------------------------------------------------
(* Field transforms of fetch_set.py *)

\* what a call leaves: a returned value, or an exception raised
Returned(value) == [raised |-> FALSE, value |-> value]
Raised == [raised |-> TRUE, value |-> ""]

RECURSIVE ManaScan(_, _, _)
\* the while loop of convert_mana_cost; cost_string.index("}", i) raises
\* ValueError when no "}" follows position i
ManaScan(cost_string, i, result) ==
    IF i > Len(cost_string) THEN Returned(result)
    ELSE IF Char(cost_string, i) = "{"
         THEN LET end == IndexFrom(cost_string, "}", i)
              IN  IF end = 0 THEN Raised
                  ELSE ManaScan(cost_string, end + 1,
                                result \o Upper(SubSeq(cost_string, i, end)))
         ELSE ManaScan(cost_string, i + 1, result)

\* convert_mana_cost(cost_string): the string returned, or the ValueError
convert_mana_cost(cost_string) ==
    IF cost_string = "" THEN Returned("") ELSE ManaScan(cost_string, 1, "")

\* Mutant: the colours are ordered alphabetically.
ColorOrderAlphabetical(x) ==
    CASE x = "B" -> 0 [] x = "G" -> 1 [] x = "R" -> 2 [] x = "U" -> 3
      [] x = "W" -> 4 [] OTHER -> 5

\* order.get(x, 5) with order = {"W": 0, "U": 1, "B": 2, "R": 3, "G": 4}
ColorOrder(x) ==
    CASE x = "W" -> 0 [] x = "U" -> 1 [] x = "B" -> 2 [] x = "R" -> 3
      [] x = "G" -> 4 [] OTHER -> 5

RECURSIVE InsertByColor(_, _)
\* x placed after every element whose order is not greater (sorted() is stable)
InsertByColor(sorted, x) ==
    IF sorted = <<>> THEN <<x>>
    ELSE IF ColorOrder(Head(sorted)) <= ColorOrder(x)
         THEN <<Head(sorted)>> \o InsertByColor(Tail(sorted), x)
         ELSE <<x>> \o sorted

RECURSIVE SortColors(_, _)
SortColors(colors, sorted) ==
    IF colors = <<>> THEN sorted
    ELSE SortColors(Tail(colors), InsertByColor(sorted, Head(colors)))

get_color_string(colors) == Join(SortColors(colors, <<>>), "")

get_color_id(colors) == Join(SortColors(colors, <<>>), "")

SoundTypes == <<"artifact", "instant", "enchantment", "sorcery", "land">>

\* Mutant: creature is one more keyword, without priority over the others.
get_soundNoPriority(type_line) ==
    IF type_line = "" THEN ""
    ELSE LET type_line_lower == Lower(type_line)
             matched_types == SelectSeq(<<"creature">> \o SoundTypes,
                                        LAMBDA t : Contains(type_line_lower, t))
         IN  IF Len(matched_types) = 1 THEN matched_types[1] ELSE ""

get_sound(type_line) ==
    IF type_line = "" THEN ""
    ELSE LET type_line_lower == Lower(type_line)
             matched_types == SelectSeq(SoundTypes,
                                        LAMBDA t : Contains(type_line_lower, t))
         IN  IF Contains(type_line_lower, "creature") THEN "creature"
             ELSE IF Len(matched_types) = 1 THEN matched_types[1]
             ELSE ""

\* "card_faces" in card and len(card["card_faces"]) >= 2  (an absent key is
\* modelled by the empty list)
IsDoubleFaced(card) == Len(card.card_faces) >= 2

get_script(card, set_code) ==
    IF ~IsDoubleFaced(card) THEN ""
    ELSE "<s><l>Create other side</l><f>/spawn [" \o set_code \o "] "
            \o card.card_faces[2].name \o "</f></s>"

RECURSIVE RemoveReminder(_)
\* re.sub(r'\s*\([^)]*\)\s*', ' ', s): leftmost matches, left to right
RemoveReminder(s) ==
    LET open == IndexFrom(s, "(", 1)
        close == IF open = 0 THEN 0 ELSE IndexFrom(s, ")", open + 1)
    IN  IF close = 0 THEN s
        ELSE RStrip(SubSeq(s, 1, open - 1)) \o " "
               \o RemoveReminder(LStrip(SubSeq(s, close + 1, Len(s))))

\* lines 292-293
CleanOracle(oracle_text) == Replace(Strip(RemoveReminder(oracle_text)), NL, " | ")

\* card.get("rarity", "").upper()[0] if card.get("rarity") else ""
RarityLetter(card) == IF card.rarity = "" THEN "" ELSE Char(Upper(card.rarity), 1)

\* str(int(mana_value)): cmc is a rational, held here in halves; int() truncates
ManaValueStr(card) == IntToStr(card.cmc_halves \div 2)

\* The 17 fields of format_card, before the join.
FormatCardFields(card, set_code) ==
    LET src == IF IsDoubleFaced(card) THEN card.card_faces[1] ELSE card
        image_file == IF IsDoubleFaced(card)
                      THEN set_code \o "/" \o card.collector_number \o "a"
                      ELSE set_code \o "/" \o card.collector_number
    IN  << card.name, set_code, image_file, set_code,
           get_color_string(src.colors), get_color_id(src.colors),
           convert_mana_cost(src.mana_cost).value, ManaValueStr(card), src.type_line,
           src.power, src.toughness, src.loyalty, RarityLetter(card), "",
           get_sound(src.type_line), get_script(card, set_code),
           CleanOracle(src.oracle_text) >>

format_card(card, set_code) == Join(FormatCardFields(card, set_code), TAB)

\* Mutant: the back record is built from card_faces[0], the front face.
FormatBackCardFieldsFront(card, set_code) ==
    LET back_face == card.card_faces[1]
    IN  << "[" \o set_code \o "] " \o back_face.name, set_code,
           set_code \o "/" \o card.collector_number \o "b", set_code,
           get_color_string(back_face.colors), get_color_id(back_face.colors),
           convert_mana_cost(back_face.mana_cost).value, ManaValueStr(card),
           back_face.type_line, back_face.power, back_face.toughness,
           back_face.loyalty, RarityLetter(card), "",
           get_sound(back_face.type_line), "",
           CleanOracle(back_face.oracle_text) >>

\* The 17 fields of format_back_card, for a card with two faces or more.
FormatBackCardFields(card, set_code) ==
    LET back_face == card.card_faces[2]
    IN  << "[" \o set_code \o "] " \o back_face.name, set_code,
           set_code \o "/" \o card.collector_number \o "b", set_code,
           get_color_string(back_face.colors), get_color_id(back_face.colors),
           convert_mana_cost(back_face.mana_cost).value, ManaValueStr(card),
           back_face.type_line, back_face.power, back_face.toughness,
           back_face.loyalty, RarityLetter(card), "",
           get_sound(back_face.type_line), "",
           CleanOracle(back_face.oracle_text) >>

\* format_back_card: the line, or None (here the empty list) for one face
format_back_card(card, set_code) ==
    IF ~IsDoubleFaced(card) THEN <<>>
    ELSE <<Join(FormatBackCardFields(card, set_code), TAB)>>

-----------------------------------------------------------------------------
(* write_set_file *)

NumPart(n) == [kind |-> 0, num |-> n, ch |-> ""]
CharPart(c) == [kind |-> 1, num |-> 0, ch |-> c]

RECURSIVE SortKeyScan(_, _, _, _, _)
\* the for loop of sort_key: current is held as the number read so far
\* (int(current)) and whether any digit was read (current != "")
SortKeyScan(col_num, i, parts, current, has_current) ==
    IF i > Len(col_num)
    THEN IF has_current THEN Append(parts, NumPart(current)) ELSE parts
    ELSE IF IsDigit(Char(col_num, i))
         THEN SortKeyScan(col_num, i + 1, parts,
                          current * 10 + DigitValue(Char(col_num, i)), TRUE)
         ELSE SortKeyScan(col_num, i + 1,
                          Append(IF has_current THEN Append(parts, NumPart(current))
                                 ELSE parts,
                                 CharPart(Char(col_num, i))),
                          0, FALSE)

\* Mutant: the collector number is compared as text, character by character.
sort_keyText(card) ==
    [i \in 1..Len(card.collector_number) |->
        CharPart(Char(card.collector_number, i))]

sort_key(card) == SortKeyScan(card.collector_number, 1, <<>>, 0, FALSE)

\* Python's order on the tuples (0, int) and (1, char)
PartLess(a, b) ==
    \/ a.kind < b.kind
    \/ a.kind = b.kind /\ a.kind = 0 /\ a.num < b.num
    \/ a.kind = b.kind /\ a.kind = 1 /\ Ord(a.ch) < Ord(b.ch)

RECURSIVE KeyLess(_, _)
\* Python's order on lists: lexicographic, a proper prefix first
KeyLess(k1, k2) ==
    IF k2 = <<>> THEN FALSE
    ELSE IF k1 = <<>> THEN TRUE
    ELSE IF Head(k1) = Head(k2) THEN KeyLess(Tail(k1), Tail(k2))
    ELSE PartLess(Head(k1), Head(k2))

RECURSIVE InsertByKey(_, _)
\* card placed after every card whose key is not greater (sorted() is stable)
InsertByKey(sorted, card) ==
    IF sorted = <<>> THEN <<card>>
    ELSE IF KeyLess(sort_key(card), sort_key(Head(sorted)))
         THEN <<card>> \o sorted
         ELSE <<Head(sorted)>> \o InsertByKey(Tail(sorted), card)

RECURSIVE SortCards(_, _)
SortCards(cards, sorted) ==
    IF cards = <<>> THEN sorted
    ELSE SortCards(Tail(cards), InsertByKey(sorted, Head(cards)))

\* sorted(cards, key=sort_key)
SortedCards(cards) == SortCards(cards, <<>>)

\* line 429
HeaderLine ==
    "Name\tSet\tImageFile\tActualSet\tColor\tColorID\tCost\tManaValue\tType\tPower\tToughness\tLoyalty\tRarity\tDraftQualities\tSound\tScript\tText"

\* Mutant: the header and the blank lines are written on every call.
HeaderLinesAlways(file_exists) == <<HeaderLine \o NL, NL, NL>>

\* lines 428-431: what is written before the cards, as lines
HeaderLines(file_exists) ==
    IF file_exists THEN <<>> ELSE <<HeaderLine \o NL, NL, NL>>

RECURSIVE CardLines(_, _)
\* lines 434-439: the lines written for the (sorted) cards
CardLines(cards, set_code) ==
    IF cards = <<>> THEN <<>>
    ELSE LET back_card == format_back_card(Head(cards), set_code)
         IN  <<format_card(Head(cards), set_code) \o NL>>
               \o (IF back_card = <<>> THEN <<>> ELSE <<back_card[1] \o NL>>)
               \o CardLines(Tail(cards), set_code)

\* The lines write_set_file adds to the file ("w" on a new file, "a" otherwise).
write_set_file(set_code, cards, file_exists) ==
    HeaderLines(file_exists) \o CardLines(SortedCards(cards), Lower(set_code))

-----------------------------------------------------------------------------
(* update_list_file *)

ClosingTag == "</listofcarddatafiles>"

IncludeTag(set_code) == "<filetoinclude>" \o Lower(set_code) \o ".txt</filetoinclude>"

\* The manifest text update_list_file leaves, given the text it read.
update_list_file(content, set_code) ==
    IF Contains(content, IncludeTag(set_code)) THEN content
    ELSE IF Contains(content, ClosingTag)
         THEN Replace(content, ClosingTag, IncludeTag(set_code) \o NL \o ClosingTag)
         ELSE content

-----------------------------------------------------------------------------
(* Image download *)

\* What one image request, decode and save can do: the image is saved; the
\* request raises a RequestException (HTTP error status, timeout); the bytes
\* are not an image (Image.open raises); the file cannot be written (OSError).
Outcomes == {"ok", "http_error", "timeout", "bad_image", "save_error"}

RequestErrors == {"http_error", "timeout"}

\* border_crop > large > normal > small; "" stands for None
PreferredUrl(image_uris) ==
    IF image_uris.border_crop # "" THEN image_uris.border_crop
    ELSE IF image_uris.large # "" THEN image_uris.large
    ELSE IF image_uris.normal # "" THEN image_uris.normal
    ELSE image_uris.small

\* a non-empty image_uris dict
HasUris(image_uris) ==
    image_uris.present /\ PreferredUrl(image_uris) # ""

\* fetch_set.py get_image_url; "" stands for None
get_image_url(card) ==
    IF Len(card.card_faces) > 0 /\ HasUris(card.card_faces[1].image_uris)
    THEN PreferredUrl(card.card_faces[1].image_uris)
    ELSE IF card.image_uris.present THEN PreferredUrl(card.image_uris)
    ELSE ""

\* download_images.py get_image_url; "" stands for None
get_image_url_normal(card) ==
    IF Len(card.card_faces) > 0 /\ HasUris(card.card_faces[1].image_uris)
    THEN card.card_faces[1].image_uris.normal
    ELSE IF card.image_uris.present THEN card.image_uris.normal
    ELSE ""

\* set_dir of download_card_image (both scripts), base_path = sets/setimages
SetDir(card, set_code) ==
    "sets/setimages/" \o Lower(set_code) \o "/"
        \o (IF Contains(Lower(card.type_line), "token") THEN "t" ELSE "")
        \o Lower(set_code)

\* chr(97 + i) for the 0-based face index i, given here 1-based
FaceSuffix(i) == Char(LowerChars, i)

FacePath(card, set_code, i) ==
    SetDir(card, set_code) \o "/" \o card.collector_number \o FaceSuffix(i) \o ".jpg"

CardPath(card, set_code) ==
    SetDir(card, set_code) \o "/" \o card.collector_number \o ".jpg"

\* The result of a download_card_image call: what it returned ("True",
\* "False") or that it raised ("raise"), the image files that exist after it,
\* the requests it issued and the files it wrote.
Result(ret, imgs, reqs, writes) ==
    [ret |-> ret, images |-> imgs, reqs |-> reqs, writes |-> writes]

RECURSIVE FacesLoop(_, _, _, _, _)
\* fetch_set.py lines 575-602: the loop over the faces from face i on; st is
\* the Result so far, with ret the value of success
FacesLoop(card, set_code, i, st, outcomes) ==
    IF i > Len(card.card_faces) THEN st
    ELSE LET image_url == PreferredUrl(card.card_faces[i].image_uris)
             file_path == FacePath(card, set_code, i)
         IN  IF image_url = ""
             THEN FacesLoop(card, set_code, i + 1,
                            Result("False", st.images, st.reqs, st.writes), outcomes)
             ELSE IF file_path \in st.images
             THEN FacesLoop(card, set_code, i + 1, st, outcomes)
             ELSE IF outcomes[i] = "ok"
             THEN FacesLoop(card, set_code, i + 1,
                            Result(st.ret, st.images \cup {file_path},
                                   Append(st.reqs, image_url),
                                   Append(st.writes, file_path)), outcomes)
             ELSE FacesLoop(card, set_code, i + 1,
                            Result("False", st.images, Append(st.reqs, image_url),
                                   st.writes), outcomes)

\* fetch_set.py lines 606-631
SingleFace(card, set_code, imgs, outcome) ==
    LET image_url == get_image_url(card)
        file_path == CardPath(card, set_code)
    IN  IF image_url = "" THEN Result("False", imgs, <<>>, <<>>)
        ELSE IF file_path \in imgs THEN Result("True", imgs, <<>>, <<>>)
        ELSE IF outcome = "ok"
        THEN Result("True", imgs \cup {file_path}, <<image_url>>, <<file_path>>)
        ELSE IF outcome \in RequestErrors
        THEN Result("False", imgs, <<image_url>>, <<>>)
        ELSE Result("raise", imgs, <<image_url>>, <<>>)

\* fetch_set.py download_card_image
download_card_image(card, set_code, imgs, outcomes) ==
    IF IsDoubleFaced(card)
    THEN FacesLoop(card, set_code, 1, Result("True", imgs, <<>>, <<>>), outcomes)
    ELSE SingleFace(card, set_code, imgs, outcomes[1])

\* download_images.py download_card_image: the bytes are written as received
download_card_image_normal(card, set_code, imgs, outcomes) ==
    LET image_url == get_image_url_normal(card)
        file_path == CardPath(card, set_code)
    IN  IF image_url = "" THEN Result("False", imgs, <<>>, <<>>)
        ELSE IF file_path \in imgs THEN Result("True", imgs, <<>>, <<>>)
        ELSE IF outcomes[1] \in {"ok", "bad_image"}
        THEN Result("True", imgs \cup {file_path}, <<image_url>>, <<file_path>>)
        ELSE IF outcomes[1] \in RequestErrors
        THEN Result("False", imgs, <<image_url>>, <<>>)
        ELSE Result("raise", imgs, <<image_url>>, <<>>)

-----------------------------------------------------------------------------
(* Cards and API responses the model draws from *)

NoUris == [present |-> FALSE, border_crop |-> "", large |-> "", normal |-> "",
           small |-> ""]

Uris(border_crop, normal, small) ==
    [present |-> TRUE, border_crop |-> border_crop, large |-> "",
     normal |-> normal, small |-> small]

Face(name, mana_cost, colors, type_line, oracle_text, image_uris) ==
    [name |-> name, mana_cost |-> mana_cost, colors |-> colors,
     type_line |-> type_line, power |-> "", toughness |-> "", loyalty |-> "",
     oracle_text |-> oracle_text, image_uris |-> image_uris]

Card(name, collector_number, mana_cost, colors, cmc_halves, type_line, rarity, oracle_text, image_uris, card_faces) ==
    [name |-> name, collector_number |-> collector_number,
     mana_cost |-> mana_cost, colors |-> colors, cmc_halves |-> cmc_halves,
     type_line |-> type_line, power |-> "", toughness |-> "", loyalty |-> "",
     rarity |-> rarity, oracle_text |-> oracle_text, image_uris |-> image_uris,
     card_faces |-> card_faces]

\* a single-faced creature with images
CardAang ==
    Card("Aang", "2", "{1}{w}", <<"W">>, 4, "Creature", "rare",
         "Flying (It flies.)\nWard", Uris("u/2c", "u/2n", ""), <<>>)

\* a transforming card: two faces, each with its own images
CardMoon ==
    Card("Moon", "10", "", <<>>, 6, "Artifact", "mythic", "", NoUris,
         << Face("Moon", "{2}{U}", <<"U">>, "Artifact", "Flip", Uris("", "u/10a", "")),
            Face("Sun", "", <<"R", "W">>, "Land", "", Uris("", "u/10b", "")) >>)

\* a single-faced card without any image
CardBlank ==
    Card("Blank", "1a", "{G}", <<"G">>, 2, "Sorcery", "common", "Draw", NoUris, <<>>)

\* an adventure card: two faces without images, one image for the whole card
CardBard ==
    Card("Bard", "1", "{B}", <<"B">>, 2, "Instant", "", "", Uris("", "u/1n", ""),
         << Face("Bard", "{B}", <<"B">>, "Creature", "", NoUris),
            Face("Song", "{R}", <<"R">>, "Instant", "", NoUris) >>)

\* a token whose only image is the small one
CardToken ==
    Card("Ally", "2", "", <<>>, 0, "Token Creature", "common", "",
         Uris("", "", "u/t2s"), <<>>)

OkPage(data, more) == [status |-> "ok", data |-> data, has_more |-> more]
FailPage(status) == [status |-> status, data |-> <<>>, has_more |-> FALSE]

\* response.json() of the search request for page p of a set: the scripted
\* page, or an empty last page past the script's end
ApiResponse(pages, p) ==
    IF p \in 1..Len(pages) THEN pages[p] ELSE OkPage(<<>>, FALSE)

-----------------------------------------------------------------------------
(* The programs *)

\* the set code being processed
set_code == SET_CODES[idx]

\* the scripted pages of the set the current query names (the API ignores case)
Pages == api[Lower(set_code)]

OutFile == [exists |-> outExists, lines |-> outLines]

Snapshot ==
    [idx |-> idx, out |-> OutFile, manifestExists |-> manifestExists,
     manifest |-> manifest, images |-> images,
     successful_sets |-> successful_sets, failed_sets |-> failed_sets]

NoDownload == [card |-> 0, ret |-> "", failure |-> FALSE, counted |-> ""]

\* Mutant: params["page"] = page, so page 1 is requested twice.
NextPageParamSame(p) == p

\* line 234: params["page"] = page + 1
NextPageParam(p) == p + 1

\* An exception reaches main. fetch_set.py lines 716-723 count the set as
\* failed and go on with the next one; download_images.py lines 174-179 exit 1.
RaiseToMain ==
    IF script = "fetch_set"
    THEN /\ failed_sets' = failed_sets + 1
         /\ idx' = idx + 1
         /\ pc' = "loop"
         /\ UNCHANGED <<successful_sets, exit_code>>
    ELSE /\ exit_code' = 1
         /\ pc' = "exited"
         /\ UNCHANGED <<idx, successful_sets, failed_sets>>

\* fetch_set.py lines 218-220, download_images.py lines 25-27
EnterFetch(i) ==
    /\ all_cards' = <<>>
    /\ has_more' = TRUE
    /\ page' = 1
    /\ params_page' = 0
    /\ fetch_error' = FALSE
    /\ snap' = [Snapshot EXCEPT !.idx = i]

\* fetch_set.py lines 678-688; download_images.py lines 163-171
MainStart ==
    /\ pc = "start"
    /\ lastOp' = "start"
    /\ IF SET_CODES = <<>>
       THEN /\ exit_code' = 1
            /\ pc' = "exited"
            /\ UNCHANGED <<idx, successful_sets, failed_sets, fetchVars,
                           fetch_error, snap>>
       ELSE /\ idx' = 1
            /\ successful_sets' = 0
            /\ failed_sets' = 0
            /\ UNCHANGED exit_code
            /\ IF script = "fetch_set"
               THEN pc' = "loop" /\ UNCHANGED <<fetchVars, fetch_error, snap>>
               ELSE pc' = "fetch" /\ EnterFetch(1)
    /\ UNCHANGED <<cfgVars, fnVars, run, was_newly_created, dlVars, outVars, manVars,
                   images, calls, requests, prevOut, prevManifest, exitFile,
                   dlHist>>

\* fetch_set.py line 690: the next set code, or the end of main (lines 725-730,
\* after which the process ends with status 0)
LoopHead ==
    /\ pc = "loop"
    /\ lastOp' = "loop"
    /\ IF idx > Len(SET_CODES)
       THEN /\ pc' = "exited"
            /\ exit_code' = 0
            /\ UNCHANGED <<fetchVars, fetch_error, snap>>
       ELSE /\ pc' = "fetch"
            /\ UNCHANGED exit_code
            /\ EnterFetch(idx)
    /\ UNCHANGED <<cfgVars, fnVars, run, idx, successful_sets, failed_sets,
                   was_newly_created, dlVars, outVars, manVars, images, calls,
                   requests, prevOut, prevManifest, exitFile, dlHist>>

\* Mutant: the except clauses log the error and leave the loop, so that
\* fetch_set_cards returns the cards of the pages fetched so far.
FetchBreak ==
    /\ fetch_error' = TRUE
    /\ lastOp' = "fetch_page"
    /\ has_more' = FALSE
    /\ pc' = "fetched"
    /\ UNCHANGED <<mainVars, page, params_page, all_cards>>

\* fetch_set.py lines 240-245, download_images.py lines 45-50: the request
\* failed (timeout, or raise_for_status on a non-2xx answer); the error is
\* logged and raised again
FetchRaise ==
    /\ fetch_error' = TRUE
    /\ lastOp' = "fetch_raised"
    /\ RaiseToMain
    /\ UNCHANGED fetchVars

\* One turn of the while loop of fetch_set_cards (fetch_set.py lines 222-245,
\* download_images.py lines 29-50): one request and what follows from its answer.
FetchPage ==
    /\ pc = "fetch"
    /\ has_more
    /\ LET p == IF params_page = 0 THEN 1 ELSE params_page
           response == ApiResponse(Pages, p)
       IN  /\ requests' = Append(requests, <<idx, p>>)
           /\ IF response.status = "ok"
              THEN /\ all_cards' = all_cards \o response.data
                   /\ IF response.has_more
                      THEN /\ params_page' = NextPageParam(page)
                           /\ page' = page + 1
                           /\ has_more' = TRUE
                           /\ pc' = "fetch"
                      ELSE /\ has_more' = FALSE
                           /\ pc' = "fetched"
                           /\ UNCHANGED <<page, params_page>>
                   /\ lastOp' = "fetch_page"
                   /\ UNCHANGED <<mainVars, fetch_error>>
              ELSE FetchRaise
    /\ UNCHANGED <<cfgVars, fnVars, run, was_newly_created, dlVars, outVars, manVars,
                   images, calls, snap, prevOut, prevManifest, exitFile, dlHist>>

\* fetch_set.py lines 696-699: no cards, the set is counted as failed;
\* download_images.py lines 130-132 and 172: return False, exit 1
NoCards ==
    /\ pc = "fetched"
    /\ all_cards = <<>>
    /\ lastOp' = "no_cards"
    /\ IF script = "fetch_set"
       THEN /\ failed_sets' = failed_sets + 1
            /\ idx' = idx + 1
            /\ pc' = "loop"
            /\ UNCHANGED <<successful_sets, exit_code>>
       ELSE /\ exit_code' = 1
            /\ pc' = "exited"
            /\ UNCHANGED <<idx, successful_sets, failed_sets>>
    /\ UNCHANGED <<cfgVars, fnVars, run, fetchVars, was_newly_created, dlVars, outVars,
                   manVars, images, calls, requests, fetch_error, snap, prevOut,
                   prevManifest, exitFile, dlHist>>

\* fetch_set.py line 701: write_set_file(set_code, cards)
WriteSet ==
    /\ pc = "fetched"
    /\ script = "fetch_set"
    /\ all_cards # <<>>
    /\ prevOut' = OutFile
    /\ outLines' = (IF outExists THEN outLines ELSE <<>>)
                       \o write_set_file(set_code, all_cards, outExists)
    /\ outExists' = TRUE
    /\ was_newly_created' = ~outExists
    /\ pc' = "dedup"
    /\ lastOp' = "write"
    /\ UNCHANGED <<cfgVars, fnVars, run, mainVars, fetchVars, dlVars, manVars, images,
                   calls, requests, fetch_error, snap, prevManifest, exitFile,
                   dlHist>>

\* fetch_set.py line 704: deduplicate_output_file(output_file)
Deduplicate ==
    /\ pc = "dedup"
    /\ prevOut' = OutFile
    /\ outLines' = deduplicate_output_file(outLines)
    /\ pc' = "manifest"
    /\ lastOp' = "dedup"
    /\ UNCHANGED <<cfgVars, fnVars, run, mainVars, fetchVars, was_newly_created, dlVars,
                   outExists, manVars, images, calls, requests, fetch_error,
                   snap, prevManifest, exitFile, dlHist>>

\* fetch_set.py lines 707-708: update_list_file when the file was created;
\* open(list_file, "r") raises FileNotFoundError when the manifest is missing
ManifestStep ==
    /\ pc = "manifest"
    /\ prevManifest' = [text |-> manifest, set_code |-> set_code]
    /\ IF ~was_newly_created
       THEN /\ lastOp' = "manifest_not_needed"
            /\ pc' = "images"
            /\ UNCHANGED <<mainVars, manifest>>
       ELSE IF ~manifestExists
       THEN /\ lastOp' = "manifest_raised"
            /\ RaiseToMain
            /\ UNCHANGED manifest
       ELSE /\ lastOp' = "manifest_updated"
            /\ manifest' = update_list_file(manifest, set_code)
            /\ pc' = "images"
            /\ UNCHANGED mainVars
    /\ UNCHANGED <<cfgVars, fnVars, run, fetchVars, was_newly_created, dlVars, outVars,
                   manifestExists, images, calls, requests, fetch_error, snap,
                   prevOut, exitFile, dlHist>>

\* the paths download_card_image would save to: one per face that has an image
\* URL (fetch_set.py), one per card that has one (single-faced cards, and
\* every card of download_images.py)
Targets(card, code) ==
    IF script = "fetch_set"
    THEN IF IsDoubleFaced(card)
         THEN {FacePath(card, code, i) : i \in
                  {j \in 1..Len(card.card_faces) :
                      PreferredUrl(card.card_faces[j].image_uris) # ""}}
         ELSE IF get_image_url(card) # "" THEN {CardPath(card, code)} ELSE {}
    ELSE IF get_image_url_normal(card) # "" THEN {CardPath(card, code)} ELSE {}

AllTargets(cards, code) == UNION {Targets(cards[i], code) : i \in 1..Len(cards)}

\* fetch_set.py lines 638-644, download_images.py lines 127-138
EnterDownload ==
    /\ card_i' = 0
    /\ successful' = 0
    /\ failed' = 0
    /\ skipped' = 0
    /\ populated' = (AllTargets(all_cards, set_code) \subseteq images)
    /\ imageRequests' = <<>>
    /\ imageWrites' = <<>>
    /\ lastDownload' = NoDownload

\* fetch_set.py lines 713-714
CompleteSet ==
    /\ successful_sets' = successful_sets + 1
    /\ idx' = idx + 1
    /\ pc' = "loop"
    /\ UNCHANGED <<failed_sets, exit_code>>

\* fetch_set.py lines 710-714: download_set_images when downloads are enabled
ImagesStep ==
    /\ pc = "images"
    /\ lastOp' = "images_step"
    /\ IF DOWNLOAD_IMAGES
       THEN /\ pc' = "download"
            /\ EnterDownload
            /\ UNCHANGED mainVars
       ELSE /\ CompleteSet
            /\ UNCHANGED <<dlVars, dlHist>>
    /\ UNCHANGED <<cfgVars, fnVars, run, fetchVars, was_newly_created, outVars, manVars,
                   images, calls, requests, fetch_error, snap, prevOut,
                   prevManifest, exitFile>>

\* download_images.py lines 134-138: the cards were fetched, the loop begins
StartDownload ==
    /\ pc = "fetched"
    /\ script = "download_images"
    /\ all_cards # <<>>
    /\ lastOp' = "images_step"
    /\ pc' = "download"
    /\ EnterDownload
    /\ UNCHANGED <<cfgVars, fnVars, run, mainVars, fetchVars, was_newly_created, outVars,
                   manVars, images, calls, requests, fetch_error, snap, prevOut,
                   prevManifest, exitFile>>

\* get_image_url(card) is None, in the running script
NoImageUrl(card) ==
    IF script = "fetch_set" THEN get_image_url(card) = ""
    ELSE get_image_url_normal(card) = ""

\* One turn of the for loop of download_set_images (fetch_set.py lines 646-661,
\* download_images.py lines 140-151): one download_card_image call, whose
\* requests end as outcomes says, and the counting of its result.
DownloadCard ==
    /\ pc = "download"
    /\ card_i < Len(all_cards)
    /\ LET card == all_cards[card_i + 1]
           faces == IF Len(card.card_faces) = 0 THEN 1 ELSE Len(card.card_faces)
           results == {IF script = "fetch_set"
                       THEN download_card_image(card, set_code, images, outcomes)
                       ELSE download_card_image_normal(card, set_code, images, outcomes) :
                          outcomes \in [1..faces -> Outcomes]}
       IN  \E r \in results :
             LET counted == IF r.ret = "raise" THEN "none"
                            ELSE IF r.ret = "True" THEN "successful"
                            ELSE IF NoImageUrl(card) THEN "skipped"
                            ELSE "failed"
             IN  /\ images' = r.images
                 /\ imageRequests' = imageRequests \o r.reqs
                 /\ imageWrites' = imageWrites \o r.writes
                 /\ lastDownload' = [card |-> card_i + 1, ret |-> r.ret,
                                     failure |-> Len(r.reqs) > Len(r.writes),
                                     counted |-> counted]
                 /\ IF r.ret = "raise"
                    THEN /\ lastOp' = "download_raised"
                         /\ RaiseToMain
                         /\ UNCHANGED dlVars
                    ELSE /\ lastOp' = "download_card"
                         /\ card_i' = card_i + 1
                         /\ successful' = successful + (IF counted = "successful" THEN 1 ELSE 0)
                         /\ skipped' = skipped + (IF counted = "skipped" THEN 1 ELSE 0)
                         /\ failed' = failed + (IF counted = "failed" THEN 1 ELSE 0)
                         /\ pc' = "download"
                         /\ UNCHANGED mainVars
    /\ UNCHANGED <<cfgVars, fnVars, run, fetchVars, was_newly_created, outVars, manVars,
                   calls, requests, fetch_error, snap, prevOut, prevManifest,
                   exitFile, populated>>

\* The loop is over. fetch_set.py lines 663-667 and 713-714: the set is
\* complete; download_images.py lines 159 and 172: exit 0 if failed == 0 else 1
DownloadEnd ==
    /\ pc = "download"
    /\ card_i = Len(all_cards)
    /\ lastOp' = "download_end"
    /\ IF script = "fetch_set"
       THEN CompleteSet
       ELSE /\ exit_code' = (IF failed = 0 THEN 0 ELSE 1)
            /\ pc' = "exited"
            /\ UNCHANGED <<idx, successful_sets, failed_sets>>
    /\ UNCHANGED <<cfgVars, fnVars, run, fetchVars, was_newly_created, dlVars, outVars,
                   manVars, images, calls, requests, fetch_error, snap, prevOut,
                   prevManifest, exitFile, dlHist>>

-----------------------------------------------------------------------------
(* Initial states and re-runs *)

\* How many times the process is run in one behaviour.
MaxRuns == 2

NoFile == [exists |-> FALSE, lines |-> <<>>]

NoManifestCall == [text |-> "", set_code |-> ""]

NoFieldCall == [fn |-> "", arg |-> ""]

\* No field function is called on its own in the runs of the programs.
FieldCallInit ==
    /\ fn_input = NoFieldCall
    /\ fn_output = Returned("")

\* The process's own variables before main starts, and the observations.
ProcessInit ==
    /\ pc = "start"
    /\ idx = 0
    /\ successful_sets = 0
    /\ failed_sets = 0
    /\ exit_code = -1
    /\ page = 0
    /\ params_page = 0
    /\ all_cards = <<>>
    /\ has_more = FALSE
    /\ was_newly_created = FALSE
    /\ card_i = 0
    /\ successful = 0
    /\ failed = 0
    /\ skipped = 0
    /\ lastOp = "init"
    /\ calls = 0
    /\ requests = <<>>
    /\ fetch_error = FALSE
    /\ prevOut = NoFile
    /\ prevManifest = NoManifestCall
    /\ exitFile = NoFile
    /\ populated = FALSE
    /\ imageRequests = <<>>
    /\ imageWrites = <<>>
    /\ lastDownload = NoDownload

\* The user runs the program again: a new process over the same configuration,
\* the same API and the files the previous run left.
Rerun ==
    /\ pc = "exited"
    /\ run < MaxRuns
    /\ run' = run + 1
    /\ pc' = "start"
    /\ idx' = 0
    /\ successful_sets' = 0
    /\ failed_sets' = 0
    /\ exit_code' = -1
    /\ page' = 0
    /\ params_page' = 0
    /\ all_cards' = <<>>
    /\ has_more' = FALSE
    /\ was_newly_created' = FALSE
    /\ card_i' = 0
    /\ successful' = 0
    /\ failed' = 0
    /\ skipped' = 0
    /\ lastOp' = "rerun"
    /\ requests' = <<>>
    /\ fetch_error' = FALSE
    /\ prevOut' = NoFile
    /\ prevManifest' = NoManifestCall
    /\ exitFile' = OutFile
    /\ populated' = FALSE
    /\ imageRequests' = <<>>
    /\ imageWrites' = <<>>
    /\ lastDownload' = NoDownload
    /\ snap' = [Snapshot EXCEPT !.idx = 0, !.successful_sets = 0, !.failed_sets = 0]
    /\ UNCHANGED <<cfgVars, fnVars, outVars, manVars, images, calls>>

SetNames == {"tla", "lci"}

\* config.txt's set_codes
BatchChoices == {<<>>, <<"tla">>, <<"tla", "lci">>, <<"lci", "tla">>, <<"TLA", "tla">>}

\* sys.argv[1:] of download_images.py
ArgvChoices == {<<>>, <<"tla">>}

TlaScripts ==
    { <<OkPage(<<CardMoon, CardAang>>, FALSE)>>,
      <<OkPage(<<CardAang>>, TRUE), OkPage(<<CardBard, CardBlank>>, FALSE)>>,
      <<OkPage(<<CardAang>>, TRUE), FailPage("timeout")>>,
      <<OkPage(<<>>, FALSE)>> }

LciScripts ==
    { <<OkPage(<<CardToken, CardAang>>, FALSE)>>,
      <<FailPage("http_error")>> }

ApiChoices == {[s \in SetNames |-> IF s = "tla" THEN t ELSE l] :
                  t \in TlaScripts, l \in LciScripts}

ManifestOpen == "<listofcarddatafiles>" \o NL

\* ListOfCardDataFiles.txt as main may find it: missing, well formed without
\* or with the set's entry, or without its closing tag
ManifestChoices ==
    { [exists |-> FALSE, text |-> ""],
      [exists |-> TRUE, text |-> ManifestOpen \o ClosingTag \o NL],
      [exists |-> TRUE, text |-> ManifestOpen \o IncludeTag("tla") \o NL \o ClosingTag \o NL],
      [exists |-> TRUE, text |-> ManifestOpen] }

\* The whole programs, started on a directory without output file or images.
\* load_config: output_file defaults to custom.txt; config.txt may name any file
DefaultOutputFile == "custom.txt"

OutputFileChoices == {DefaultOutputFile, "tla.txt"}

Init ==
    /\ script \in {"fetch_set", "download_images"}
    /\ SET_CODES \in (IF script = "fetch_set" THEN BatchChoices ELSE ArgvChoices)
    /\ DOWNLOAD_IMAGES \in (IF script = "fetch_set" THEN BOOLEAN ELSE {FALSE})
    /\ OUTPUT_FILE \in (IF script = "fetch_set" THEN OutputFileChoices
                        ELSE {DefaultOutputFile})
    /\ api \in ApiChoices
    /\ run = 1
    /\ outExists = FALSE
    /\ outLines = <<>>
    /\ \E m \in (IF script = "fetch_set" THEN ManifestChoices
                 ELSE {[exists |-> FALSE, text |-> ""]}) :
          manifestExists = m.exists /\ manifest = m.text
    /\ images = {}
    /\ ProcessInit
    /\ FieldCallInit
    /\ snap = Snapshot

Next ==
    \/ MainStart
    \/ LoopHead
    \/ FetchPage
    \/ NoCards
    \/ WriteSet
    \/ Deduplicate
    \/ ManifestStep
    \/ ImagesStep
    \/ StartDownload
    \/ DownloadCard
    \/ DownloadEnd
    \/ Rerun

Spec == Init /\ [][Next]_vars

-----------------------------------------------------------------------------
(* deduplicate_output_file called on its own, on any file *)

\* The longest run of lines after the header and the leading blank lines.
MaxDataLines == 3

\* How many times in a row an operation is called on its own.
MaxCalls == 2

\* Lines of four fields: two with the same (Name, ImageFile) and different
\* trailing data, one that differs in the name only, one that differs in the
\* image file only; a line of two fields; a blank line; a line of three empty
\* fields.
DedupLinePool ==
    { "A\ts\tk1\tx\n", "A\ts\tk1\ty\n", "B\ts\tk1\tx\n", "A\ts\tk2\tx\n",
      "A\ts\n", "\n", "\t\t\n" }

LeadingBlankChoices == {<<>>, <<NL>>, <<NL, NL>>}

\* the file whose last line has no line break at its end (no such file when
\* the last line is a lone line break)
WithoutFinalBreak(lines) ==
    LET last == lines[Len(lines)]
    IN  IF Len(last) <= 1 THEN lines
        ELSE [lines EXCEPT ![Len(lines)] = SubSeq(last, 1, Len(last) - 1)]

DedupFilesComplete ==
    { <<HeaderLine \o NL>> \o blanks \o data :
        blanks \in LeadingBlankChoices,
        data \in UNION {[1..n -> DedupLinePool] : n \in 0..MaxDataLines} }

\* f.readlines() of the output file: every line ends with a line break,
\* except perhaps the last one
DedupFiles ==
    {<<>>} \cup DedupFilesComplete
           \cup {WithoutFinalBreak(lines) : lines \in DedupFilesComplete}

InitDedup ==
    /\ script = "fetch_set"
    /\ SET_CODES = <<"tla">>
    /\ DOWNLOAD_IMAGES = FALSE
    /\ OUTPUT_FILE = DefaultOutputFile
    /\ api = [s \in SetNames |-> <<>>]
    /\ run = 1
    /\ outExists = TRUE
    /\ outLines \in DedupFiles
    /\ manifestExists = FALSE
    /\ manifest = ""
    /\ images = {}
    /\ ProcessInit
    /\ FieldCallInit
    /\ snap = Snapshot

\* deduplicate_output_file(output_file), fetch_set.py lines 477-524
DedupCall ==
    /\ lastOp \in {"init", "dedup"}
    /\ calls < MaxCalls
    /\ outExists
    /\ calls' = calls + 1
    /\ prevOut' = OutFile
    /\ outLines' = deduplicate_output_file(outLines)
    /\ lastOp' = "dedup"
    /\ UNCHANGED <<cfgVars, fnVars, pc, run, mainVars, fetchVars, was_newly_created,
                   dlVars, outExists, manVars, images, requests, fetch_error,
                   snap, prevManifest, exitFile, dlHist>>

SpecDedup == InitDedup /\ [][DedupCall]_vars

\* The positions of a file's data lines: the lines after the header and the
\* leading blank lines that have three fields or more.
DataIdx(lines) ==
    {i \in DataStart(lines, 2)..Len(lines) : Len(Parts(lines[i])) >= 3}

\* The positions of the data lines a pass has left: the header and the
\* leading blank lines are where they were before the pass.
DataIdxAfter(lines, before) ==
    {i \in DataStart(before, 2)..Len(lines) : Len(Parts(lines[i])) >= 3}

KeyAt(lines, i) == <<Parts(lines[i])[1], Parts(lines[i])[3]>>

\* The positions of the data lines that no later data line shares its key with.
LastOccurrences(lines) ==
    {i \in DataIdx(lines) :
        \A j \in DataIdx(lines) : j > i => KeyAt(lines, j) # KeyAt(lines, i)}

RECURSIVE LinesAt(_, _)
\* the lines at the positions S, in increasing order of position
LinesAt(lines, S) ==
    IF S = {} THEN <<>>
    ELSE LET m == CHOOSE x \in S : \A y \in S : x <= y
         IN  <<lines[m]>> \o LinesAt(lines, S \ {m})

\* C1: after deduplicate_output_file no two data lines share the same
\* (Name, ImageFile) pair, and the data lines that survive are exactly the last
\* occurrence of each pair, in the relative order they had before the pass.
C1_DedupKeepsLastOccurrences ==
    (lastOp = "dedup" /\ prevOut.lines # <<>>) =>
        /\ \A i, j \in DataIdxAfter(outLines, prevOut.lines) :
               i # j => KeyAt(outLines, i) # KeyAt(outLines, j)
        /\ LinesAt(outLines, DataIdxAfter(outLines, prevOut.lines))
               = LinesAt(prevOut.lines, LastOccurrences(prevOut.lines))

\* A pass that dropped an earlier line of a pair whose later line differs in
\* its trailing data, with another pair's line between the two.
C1_Witness ==
    /\ lastOp = "dedup"
    /\ calls = 1
    /\ \E i, j, k \in DataIdx(prevOut.lines) :
          /\ i < k /\ k < j
          /\ KeyAt(prevOut.lines, i) = KeyAt(prevOut.lines, j)
          /\ prevOut.lines[i] # prevOut.lines[j]
          /\ KeyAt(prevOut.lines, k) # KeyAt(prevOut.lines, i)
    /\ Len(outLines) < Len(prevOut.lines)

-----------------------------------------------------------------------------
(* The output file across writes, deduplications and runs *)

\* A line that holds a card record: 17 tab-separated fields and a newline,
\* neither blank nor the header.
IsRecordLine(line) ==
    /\ Len(line) > 0
    /\ SubSeq(line, Len(line), Len(line)) = NL
    /\ Cardinality(Positions(line, TAB)) = 16
    /\ ~IsBlank(line)
    /\ line # HeaderLine \o NL

\* C2: starting from an absent output file, after any sequence of
\* write_set_file calls, each followed by deduplicate_output_file, the file is
\* the header line, exactly two blank lines, then card record lines only; the
\* call that creates the file writes the header and the blank lines, a later
\* call appends record lines only, and deduplication leaves the header and the
\* leading blank lines as they are.
C2_FileLayout ==
    (outExists /\ lastOp \in {"write", "dedup"}) =>
        /\ Len(outLines) >= 3
        /\ outLines[1] = HeaderLine \o NL
        /\ outLines[2] = NL
        /\ outLines[3] = NL
        /\ \A i \in 4..Len(outLines) : IsRecordLine(outLines[i])
        /\ (lastOp = "write" /\ prevOut.exists) =>
               /\ Len(outLines) > Len(prevOut.lines)
               /\ SubSeq(outLines, 1, Len(prevOut.lines)) = prevOut.lines
        /\ (lastOp = "write" /\ ~prevOut.exists) => was_newly_created
        /\ lastOp = "dedup" => SubSeq(outLines, 1, 3) = SubSeq(prevOut.lines, 1, 3)

\* A deduplication that removed lines from a file an earlier call had created
\* and a later call had appended to.
C2_Witness ==
    /\ lastOp = "dedup"
    /\ ~was_newly_created
    /\ Len(outLines) > 4
    /\ Len(outLines) < Len(prevOut.lines)

\* C3: running the whole batch again, with the same set codes and the same API
\* responses, on the output file a previous run left gives that file back: the
\* same lines in the same order, none duplicated, none lost.
C3_RerunKeepsFile ==
    (script = "fetch_set" /\ pc = "exited" /\ run > 1) => OutFile = exitFile

\* The end of a second run that wrote two sets to an existing file.
C3_Witness ==
    /\ script = "fetch_set"
    /\ pc = "exited"
    /\ run = 2
    /\ Len(SET_CODES) = 2
    /\ successful_sets = 2
    /\ exitFile.exists
    /\ Len(outLines) > 6

-----------------------------------------------------------------------------
(* fetch_set_cards on any paginated answer *)

\* The largest number of pages the API answers a set with.
MaxPages == 3

PageDataChoices == {<<>>, <<CardAang>>, <<CardMoon, CardBlank>>}

LastPageChoices ==
    {OkPage(d, FALSE) : d \in PageDataChoices}
        \cup {FailPage("timeout"), FailPage("http_error")}

\* Pages 1..n-1 report more pages; page n reports none, or fails.
FetchScripts ==
    UNION { { [i \in 1..n |-> IF i < n THEN OkPage(d[i], TRUE) ELSE last] :
                d \in [1..(n - 1) -> PageDataChoices], last \in LastPageChoices } :
            n \in 1..MaxPages }

InitFetch ==
    /\ script \in {"fetch_set", "download_images"}
    /\ SET_CODES = <<"tla">>
    /\ DOWNLOAD_IMAGES = FALSE
    /\ OUTPUT_FILE = DefaultOutputFile
    /\ \E pages \in FetchScripts :
          api = [s \in SetNames |-> IF s = "tla" THEN pages ELSE <<>>]
    /\ run = 1
    /\ outExists = FALSE
    /\ outLines = <<>>
    /\ manifestExists = FALSE
    /\ manifest = ""
    /\ images = {}
    /\ ProcessInit
    /\ FieldCallInit
    /\ snap = Snapshot

\* The programs up to the return of fetch_set_cards.
NextFetch ==
    \/ MainStart
    \/ LoopHead
    \/ FetchPage

SpecFetch == InitFetch /\ [][NextFetch]_vars

RECURSIVE ConcatData(_)
\* the data lists of the pages, one after the other
ConcatData(pages) ==
    IF pages = <<>> THEN <<>> ELSE Head(pages).data \o ConcatData(Tail(pages))

\* C7: when the API answers pages 1..n-1 with has_more true and page n with
\* has_more false and no request fails, fetch_set_cards issues exactly n
\* requests, for the pages 1, 2, ..., n in this order, then ends and returns
\* the pages' data lists concatenated in page order; no page is requested
\* after the one that reported no more pages.
C7_Pagination ==
    LET pages == api["tla"]
        n == Len(pages)
    IN  /\ \A k \in 1..Len(requests) : requests[k] = <<1, k>>
        /\ Len(requests) <= n
        /\ pc = "fetch" => Len(requests) < n
        /\ pc = "fetched" =>
               /\ \A i \in 1..n : pages[i].status = "ok"
               /\ Len(requests) = n
               /\ all_cards = ConcatData(pages)
               /\ ~has_more

\* fetch_set_cards returned after three pages, each with cards.
C7_Witness ==
    /\ pc = "fetched"
    /\ Len(requests) = 3
    /\ \A i \in 1..3 : api["tla"][i].data # <<>>
    /\ Len(all_cards) >= 3

-----------------------------------------------------------------------------
(* Failures *)

\* the pages requested for the set with index i, in the order of the requests
PagesRequestedFor(i) ==
    LET RECURSIVE Pick(_)
        Pick(k) == IF k > Len(requests) THEN <<>>
                   ELSE (IF requests[k][1] = i THEN <<requests[k][2]>> ELSE <<>>)
                            \o Pick(k + 1)
    IN  Pick(1)

\* C8: when a page request of a set times out or is answered with an error
\* status, fetch_set_cards raises; nothing of that set reaches the output
\* file, the manifest or the image cache, not even the cards of the pages
\* already fetched; no request is repeated; the set is counted as failed; and
\* main goes on to every later set code of the batch.
C8_FetchFailureIsPerSet ==
    /\ (fetch_error /\ script = "fetch_set") =>
           /\ pc \in {"loop", "exited"}
           /\ OutFile = snap.out
           /\ manifestExists = snap.manifestExists
           /\ manifest = snap.manifest
           /\ images = snap.images
           /\ failed_sets = snap.failed_sets + 1
           /\ successful_sets = snap.successful_sets
           /\ idx = snap.idx + 1
           /\ LET asked == PagesRequestedFor(snap.idx)
              IN  \A j, k \in 1..Len(asked) : j # k => asked[j] # asked[k]
    /\ (script = "fetch_set" /\ pc = "exited" /\ SET_CODES # <<>>) =>
           /\ \A i \in 1..Len(SET_CODES) : PagesRequestedFor(i) # <<>>
           /\ successful_sets + failed_sets = Len(SET_CODES)

\* The second page of the first set of a batch has just failed, after a first
\* page with cards, and a second set is still to come.
C8_Witness ==
    /\ script = "fetch_set"
    /\ fetch_error
    /\ lastOp = "fetch_raised"
    /\ PagesRequestedFor(1) = <<1, 2>>
    /\ api[Lower(SET_CODES[1])][1].data # <<>>
    /\ idx = 2
    /\ Len(SET_CODES) = 2

\* C10: when the manifest file is missing as main reaches the manifest step of
\* a set, the step is skipped and the set goes on: main moves to the image
\* step and the set is not counted as failed.
C10_MissingManifestSkipped ==
    (lastOp \in {"manifest_raised", "manifest_updated", "manifest_not_needed"}
        /\ ~manifestExists) =>
        /\ pc = "images"
        /\ failed_sets = snap.failed_sets

-----------------------------------------------------------------------------
(* Image download counters *)

\* the card, or one of its faces, has no image URL
LacksUrl(card) ==
    IF script = "fetch_set" /\ IsDoubleFaced(card)
    THEN \E i \in 1..Len(card.card_faces) :
            PreferredUrl(card.card_faces[i].image_uris) = ""
    ELSE NoImageUrl(card)

\* C4: a download loop that starts with every target image file present issues
\* no image request, writes no file and counts every card as successful or
\* skipped, none as failed; and no request or write is ever made for a file
\* that exists.
C4_PopulatedRerun ==
    /\ (pc = "download" /\ populated) =>
           /\ imageRequests = <<>>
           /\ imageWrites = <<>>
           /\ failed = 0
    /\ \A j, k \in 1..Len(imageWrites) : j # k => imageWrites[j] # imageWrites[k]

\* C5: a card whose image request or save failed is counted as failed, and
\* the loop goes on with the next card.
C5_FailureIsCounted ==
    (lastOp \in {"download_card", "download_raised"} /\ lastDownload.failure) =>
        /\ lastDownload.counted = "failed"
        /\ pc = "download"

\* C6: every card the loop has counted incremented exactly one counter:
\* skipped when the card or one of its faces has no image URL, failed when a
\* request or save failed, successful otherwise.
C6_CounterPerCard ==
    /\ pc = "download" => successful + failed + skipped = card_i
    /\ lastOp = "download_card" =>
           LET card == all_cards[lastDownload.card]
           IN  lastDownload.counted =
                   (IF LacksUrl(card) THEN "skipped"
                    ELSE IF lastDownload.failure THEN "failed"
                    ELSE "successful")

-----------------------------------------------------------------------------
(* update_list_file on any manifest text *)

\* The largest number of lines of ListOfCardDataFiles.txt.
MaxManifestTokens == 3

\* The lines a manifest is made of.
ManifestTokens ==
    {ManifestOpen, IncludeTag("tla") \o NL, IncludeTag("lci") \o NL,
     ClosingTag \o NL, NL}

RECURSIVE JoinAll(_)
JoinAll(seq) == IF seq = <<>> THEN "" ELSE Head(seq) \o JoinAll(Tail(seq))

ManifestTexts ==
    UNION { {JoinAll(t) : t \in [1..n -> ManifestTokens]} :
            n \in 0..MaxManifestTokens }

InitManifest ==
    /\ script = "fetch_set"
    /\ SET_CODES = <<"tla">>
    /\ DOWNLOAD_IMAGES = FALSE
    /\ OUTPUT_FILE = DefaultOutputFile
    /\ api = [s \in SetNames |-> <<>>]
    /\ run = 1
    /\ outExists = FALSE
    /\ outLines = <<>>
    /\ manifestExists = TRUE
    /\ manifest \in ManifestTexts
    /\ images = {}
    /\ ProcessInit
    /\ FieldCallInit
    /\ snap = Snapshot

\* update_list_file(set_code), fetch_set.py lines 449-474
UpdateListCall ==
    /\ lastOp \in {"init", "update_list"}
    /\ calls < MaxCalls
    /\ manifestExists
    /\ \E code \in {"tla", "TLA", "lci"} :
          /\ prevManifest' = [text |-> manifest, set_code |-> code]
          /\ manifest' = update_list_file(manifest, code)
    /\ calls' = calls + 1
    /\ lastOp' = "update_list"
    /\ UNCHANGED <<cfgVars, fnVars, pc, run, mainVars, fetchVars, was_newly_created,
                   dlVars, outVars, manifestExists, images, requests,
                   fetch_error, snap, prevOut, exitFile, dlHist>>

SpecManifest == InitManifest /\ [][UpdateListCall]_vars

\* the positions at which sub occurs in s
Occurrences(s, sub) ==
    {k \in 1..(Len(s) - Len(sub) + 1) : SubSeq(s, k, k + Len(sub) - 1) = sub}

\* C9: update_list_file is an idempotent insert. A manifest that already has
\* the set's include tag, or has no closing tag, is left as it is.  Otherwise
\* the manifest afterwards has the include tag exactly once, directly before
\* the closing tag (a line break apart), and is the old text in every other
\* character.
C9_IdempotentInsert ==
    lastOp = "update_list" =>
        LET old == prevManifest.text
            tag == "<filetoinclude>" \o Lower(prevManifest.set_code)
                       \o ".txt</filetoinclude>"
        IN  IF Occurrences(old, tag) # {} \/ Occurrences(old, ClosingTag) = {}
            THEN manifest = old
            ELSE /\ Cardinality(Occurrences(manifest, tag)) = 1
                 /\ \E k \in Occurrences(old, ClosingTag) :
                       \E sep \in {"", NL} :
                          manifest = SubSeq(old, 1, k - 1) \o tag \o sep
                                         \o SubSeq(old, k, Len(old))

-----------------------------------------------------------------------------
(* The manifest entry of a new output file *)

\* C11: the include entry main adds to the manifest for a set names the file
\* write_set_file created for it, sets/OUTPUT_FILE; and a set whose output
\* file existed before it was written leaves the manifest as it was.
C11_ManifestNamesWrittenFile ==
    /\ (lastOp = "manifest_updated" /\ manifest # prevManifest.text) =>
           Occurrences(manifest,
               "<filetoinclude>" \o OUTPUT_FILE \o "</filetoinclude>") # {}
    /\ (script = "fetch_set" /\ snap.out.exists) => manifest = snap.manifest

-----------------------------------------------------------------------------
(* Exit status *)

\* C12: a process that has exited has status 0 or 1, and status 0 only when
\* its run succeeded: fetch_set.py had set codes and counted no set as failed
\* (no failed fetch, no empty set, no error while processing); and
\* download_images.py had an argument, fetched cards, met no error and
\* counted no card as failed.
C12_ExitStatus ==
    pc = "exited" =>
        /\ exit_code \in {0, 1}
        /\ exit_code = 0 =>
               IF script = "fetch_set"
               THEN SET_CODES # <<>> /\ failed_sets = 0
               ELSE /\ SET_CODES # <<>>
                    /\ ~fetch_error
                    /\ all_cards # <<>>
                    /\ lastOp # "download_raised"
                    /\ failed = 0

-----------------------------------------------------------------------------
(* Records per face *)

\* the lines the last write_set_file added after the header
WrittenRecords ==
    IF prevOut.exists
    THEN SubSeq(outLines, Len(prevOut.lines) + 1, Len(outLines))
    ELSE SubSeq(outLines, 4, Len(outLines))

\* the characters of a string, as a set
CharsOf(s) == {SubSeq(s, k, k) : k \in 1..Len(s)}

\* the elements of a list, as a set
Elements(seq) == {seq[k] : k \in 1..Len(seq)}

\* line is a 17-field record for src (a card or a face) of card, with the
\* given name and image file
IsRecordOf(line, card, src, name, image_file, code) ==
    LET parts == Parts(line)
    IN  /\ line = RStripNL(line) \o NL
        /\ Len(parts) = 17
        /\ parts[1] = name
        /\ parts[2] = code
        /\ parts[3] = image_file
        /\ parts[4] = code
        /\ CharsOf(parts[5]) = Elements(src.colors)
        /\ parts[8] = IntToStr(card.cmc_halves \div 2)
        /\ parts[9] = src.type_line
        /\ parts[10] = src.power
        /\ parts[11] = src.toughness
        /\ parts[12] = src.loyalty

RECURSIVE RecordsOf(_, _, _)
\* lines are the records of the cards, in the cards' order: one for a card
\* with fewer than two faces, front then back for the others
RecordsOf(lines, cards, code) ==
    IF cards = <<>> THEN lines = <<>>
    ELSE LET card == Head(cards)
             image == code \o "/" \o card.collector_number
         IN  IF Len(card.card_faces) >= 2
             THEN /\ Len(lines) >= 2
                  /\ IsRecordOf(lines[1], card, card.card_faces[1], card.name,
                                image \o "a", code)
                  /\ IsRecordOf(lines[2], card, card.card_faces[2],
                                "[" \o code \o "] " \o card.card_faces[2].name,
                                image \o "b", code)
                  /\ RecordsOf(SubSeq(lines, 3, Len(lines)), Tail(cards), code)
             ELSE /\ Len(lines) >= 1
                  /\ IsRecordOf(lines[1], card, card, card.name, image, code)
                  /\ RecordsOf(Tail(lines), Tail(cards), code)

\* C13: write_set_file writes one 17-field record per single-faced card and
\* two consecutive ones per double-faced card: the front with image file
\* set/<number>a and the fields of face 0, the back with image file
\* set/<number>b, the name "[set] <back name>" and the fields of face 1, both
\* with the parent card's mana value (set is the lower-cased set code).
C13_RecordsPerFace ==
    lastOp = "write" =>
        RecordsOf(WrittenRecords, SortedCards(all_cards), Lower(set_code))

\* One single-faced and one two-faced card have just been written as 3 rows.
C13_Witness ==
    /\ lastOp = "write"
    /\ Len(all_cards) = 2
    /\ \E i, j \in 1..2 : /\ Len(all_cards[i].card_faces) = 0
                          /\ Len(all_cards[j].card_faces) = 2
    /\ Len(WrittenRecords) = 3

-----------------------------------------------------------------------------
(* write_set_file on any order of collector numbers *)

\* The largest number of cards in the fetched list.
MaxSortCards == 4

SortNumbers == {"1", "1a", "2", "10", "02"}

\* a single-faced card named after its position in the fetched list
NumberedCard(i, collector_number) ==
    Card(IntToStr(i), collector_number, "", <<>>, 0, "Land", "common", "",
         NoUris, <<>>)

SortLists ==
    UNION { {[i \in 1..n |-> NumberedCard(i, t[i])] : t \in [1..n -> SortNumbers]} :
            n \in 0..MaxSortCards }

InitSort ==
    /\ script = "fetch_set"
    /\ SET_CODES = <<"tla">>
    /\ DOWNLOAD_IMAGES = FALSE
    /\ OUTPUT_FILE = DefaultOutputFile
    /\ \E cards \in SortLists :
          api = [s \in SetNames |->
                    IF s = "tla" THEN <<OkPage(cards, FALSE)>> ELSE <<>>]
    /\ run = 1
    /\ outExists = FALSE
    /\ outLines = <<>>
    /\ manifestExists = FALSE
    /\ manifest = ""
    /\ images = {}
    /\ ProcessInit
    /\ FieldCallInit
    /\ snap = Snapshot

\* fetch_set.py up to the return of write_set_file
NextSort ==
    \/ MainStart
    \/ LoopHead
    \/ FetchPage
    \/ WriteSet

SpecSort == InitSort /\ [][NextSort]_vars

\* the collector numbers of a list of cards
NumbersOf(cards) == [i \in 1..Len(cards) |-> cards[i].collector_number]

\* Name and collector number of each written record, in file order.
WrittenCards ==
    [i \in 1..Len(WrittenRecords) |->
        LET parts == Parts(WrittenRecords[i])
        IN  [name |-> parts[1],
             collector_number |-> SubSeq(parts[3], Len(Lower(set_code)) + 2,
                                         Len(parts[3]))]]

\* the position in the fetched list of the card with this name
FetchPosition(name) == CHOOSE i \in 1..Len(all_cards) : all_cards[i].name = name

\* C14: write_set_file writes the fetched cards, each once, in the order of
\* their keys (digit runs as integers, other characters singly, compared
\* lexicographically): "2" before "10", a number before the same number with
\* a letter, ["10", "2", "1a", "1"] as ["1", "1a", "2", "10"], and cards with
\* equal keys in their fetch order.
C14_CollectorNumberOrder ==
    lastOp = "write" =>
        LET out == WrittenCards
            n == Len(out)
        IN  /\ n = Len(all_cards)
            /\ \A i \in 1..n : \E j \in 1..n :
                  /\ out[j].name = all_cards[i].name
                  /\ out[j].collector_number = all_cards[i].collector_number
            /\ \A i, j \in 1..n : i < j =>
                  /\ ~KeyLess(sort_key(out[j]), sort_key(out[i]))
                  /\ sort_key(out[i]) = sort_key(out[j]) =>
                        FetchPosition(out[i].name) < FetchPosition(out[j].name)
                  /\ ~(out[i].collector_number = "10" /\ out[j].collector_number = "2")
                  /\ ~(out[i].collector_number = "1a" /\ out[j].collector_number = "1")
            /\ NumbersOf(all_cards) = <<"10", "2", "1a", "1">> =>
                  NumbersOf(out) = <<"1", "1a", "2", "10">>

\* The list ["10", "2", "1a", "1"] has just been written.
C14_Witness ==
    /\ lastOp = "write"
    /\ NumbersOf(all_cards) = <<"10", "2", "1a", "1">>
    /\ Len(WrittenRecords) = 4

\* Two cards with equal keys and different numbers have been written.
C14_WitnessEqualKeys ==
    /\ lastOp = "write"
    /\ NumbersOf(all_cards) = <<"02", "10", "2">>

-----------------------------------------------------------------------------
(* The field functions on any input *)

\* The longest mana-cost string.
MaxManaLen == 4

\* The largest number of words of a type line.
MaxTypeWords == 3

\* The longest list of colour codes.
MaxColors == 4

RECURSIVE StringsOver(_, _)
\* the strings of n characters of the alphabet
StringsOver(alphabet, n) ==
    IF n = 0 THEN {""}
    ELSE {s \o c : s \in StringsOver(alphabet, n - 1), c \in alphabet}

ManaAlphabet == {"{", "}", "w", "G", "2", "/"}

\* card.get("mana_cost", ""): any short string, and a split card's cost
ManaStrings ==
    UNION {StringsOver(ManaAlphabet, n) : n \in 0..MaxManaLen}
        \cup {"{1}{w} // {2}{u}"}

TypeWords ==
    {"Creature", "CREATURE", "Artifact", "instant", "Enchantment", "Sorcery",
     "Land", "Legendary", "Elf"}

\* card.get("type_line", ""): the words, and the line they make
TypeLines ==
    UNION { {[words |-> w, line |-> Join(w, " ")] : w \in [1..n -> TypeWords]} :
            n \in 0..MaxTypeWords }

ColorCodes == {"W", "U", "B", "R", "G", "C"}

FiveColors == <<"W", "U", "B", "R", "G">>

\* card.get("colors", []): any short list, and every order of the five colours
ColorLists ==
    UNION {[1..n -> ColorCodes] : n \in 0..MaxColors}
        \cup {[i \in 1..5 |-> FiveColors[q[i]]] :
                q \in {f \in [1..5 -> 1..5] : \A i, j \in 1..5 : i # j => f[i] # f[j]}}

FieldCall(fn, arg, words) == [fn |-> fn, arg |-> arg, words |-> words]

InitFields ==
    /\ script = "fetch_set"
    /\ SET_CODES = <<"tla">>
    /\ DOWNLOAD_IMAGES = FALSE
    /\ OUTPUT_FILE = DefaultOutputFile
    /\ api = [s \in SetNames |-> <<>>]
    /\ run = 1
    /\ outExists = FALSE
    /\ outLines = <<>>
    /\ manifestExists = FALSE
    /\ manifest = ""
    /\ images = {}
    /\ ProcessInit
    /\ snap = Snapshot
    /\ fn_output = Returned("")
    /\ \/ \E cost_string \in ManaStrings :
             fn_input = FieldCall("convert_mana_cost", cost_string, <<>>)
       \/ \E t \in TypeLines :
             fn_input = FieldCall("get_sound", t.line, t.words)
       \/ \E colors \in ColorLists, fn \in {"get_color_string", "get_color_id"} :
             fn_input = FieldCall(fn, colors, <<>>)

\* what every call of a field function leaves alone
FieldFrame ==
    /\ lastOp = "init"
    /\ lastOp' = "field_call"
    /\ UNCHANGED <<cfgVars, fn_input, pc, run, mainVars, fetchVars,
                   was_newly_created, dlVars, outVars, manVars, images, calls,
                   requests, fetch_error, snap, prevOut, prevManifest, exitFile,
                   dlHist>>

\* convert_mana_cost(cost_string), fetch_set.py lines 104-123
ConvertManaCostCall ==
    /\ fn_input.fn = "convert_mana_cost"
    /\ fn_output' = convert_mana_cost(fn_input.arg)
    /\ FieldFrame

\* get_sound(type_line), fetch_set.py lines 174-202
GetSoundCall ==
    /\ fn_input.fn = "get_sound"
    /\ fn_output' = Returned(get_sound(fn_input.arg))
    /\ FieldFrame

\* get_color_string(colors), fetch_set.py lines 126-136
GetColorStringCall ==
    /\ fn_input.fn = "get_color_string"
    /\ fn_output' = Returned(get_color_string(fn_input.arg))
    /\ FieldFrame

\* get_color_id(colors), fetch_set.py lines 139-149
GetColorIdCall ==
    /\ fn_input.fn = "get_color_id"
    /\ fn_output' = Returned(get_color_id(fn_input.arg))
    /\ FieldFrame

NextFields ==
    \/ ConvertManaCostCall
    \/ GetSoundCall
    \/ GetColorStringCall
    \/ GetColorIdCall

SpecFields == InitFields /\ [][NextFields]_vars

\* the input function fn has just been applied to
Called(fn) == lastOp = "field_call" /\ fn_input.fn = fn

RECURSIVE TokensUppercased(_, _)
\* s from position i on, with the letters of every {...} token in upper case
\* and every other character as it is
TokensUppercased(s, i) ==
    IF i > Len(s) THEN ""
    ELSE LET closing == {k \in i..Len(s) : SubSeq(s, k, k) = "}"}
         IN  IF SubSeq(s, i, i) = "{" /\ closing # {}
             THEN LET end == CHOOSE k \in closing : \A j \in closing : k <= j
                  IN  Upper(SubSeq(s, i, end)) \o TokensUppercased(s, end + 1)
             ELSE SubSeq(s, i, i) \o TokensUppercased(s, i + 1)

\* C15: for every mana-cost string s, convert_mana_cost(s) is s with the
\* inside of each {...} token in upper case and every character outside the
\* tokens unchanged and in place; the empty string gives the empty string.
C15_ManaCostPassThrough ==
    Called("convert_mana_cost") =>
        /\ ~fn_output.raised
        /\ fn_output.value = TokensUppercased(fn_input.arg, 1)

\* the keyword a word of a type line stands for, whatever its letter case
KeywordOf(word) ==
    CASE word \in {"Creature", "CREATURE"} -> "creature"
      [] word = "Artifact" -> "artifact"
      [] word = "instant" -> "instant"
      [] word = "Enchantment" -> "enchantment"
      [] word = "Sorcery" -> "sorcery"
      [] word = "Land" -> "land"
      [] OTHER -> ""

\* C16: get_sound returns "creature" for every type line that contains
\* creature, in any letter case and whatever else the line contains; for the
\* other lines it returns the keyword when exactly one of artifact, instant,
\* enchantment, sorcery, land occurs, and "" when none or several occur.
C16_SoundClassification ==
    Called("get_sound") =>
        LET found == {KeywordOf(fn_input.words[i]) :
                         i \in 1..Len(fn_input.words)} \ {""}
        IN  /\ ~fn_output.raised
            /\ fn_output.value =
                   (IF "creature" \in found THEN "creature"
                    ELSE IF Cardinality(found) = 1
                         THEN CHOOSE k \in found : TRUE
                    ELSE "")

\* get_sound has answered creature for a line that also names two other types.
C16_Witness ==
    /\ Called("get_sound")
    /\ fn_input.arg = "Artifact CREATURE Land"
    /\ fn_output.value = "creature"

\* get_sound has answered "" for two keywords and none of them creature.
C16_WitnessSeveral ==
    /\ Called("get_sound")
    /\ fn_input.arg = "Artifact Land"
    /\ fn_output.value = ""

RECURSIVE Repeated(_, _)
\* n copies of the string c
Repeated(c, n) == IF n = 0 THEN "" ELSE c \o Repeated(c, n - 1)

\* how many times x occurs in the list
CountOf(seq, x) == Cardinality({i \in 1..Len(seq) : seq[i] = x})

RECURSIVE OtherCodes(_)
\* the codes of the list that are none of the five colours, in list order
OtherCodes(seq) ==
    IF seq = <<>> THEN ""
    ELSE (IF Head(seq) \in {"W", "U", "B", "R", "G"} THEN "" ELSE Head(seq))
            \o OtherCodes(Tail(seq))

\* C17: get_color_string and get_color_id return the codes of their input,
\* each as often as it occurs, without separator: the W's first, then the
\* U's, B's, R's and G's, then any other code; so the output does not depend
\* on the order of the colours in the input, and the empty list gives "".
C17_ColorOrder ==
    (Called("get_color_string") \/ Called("get_color_id")) =>
        LET colors == fn_input.arg
        IN  /\ ~fn_output.raised
            /\ fn_output.value =
                   Repeated("W", CountOf(colors, "W"))
                       \o Repeated("U", CountOf(colors, "U"))
                       \o Repeated("B", CountOf(colors, "B"))
                       \o Repeated("R", CountOf(colors, "R"))
                       \o Repeated("G", CountOf(colors, "G"))
                       \o OtherCodes(colors)
            /\ colors = <<>> => fn_output.value = ""

\* get_color_id has ordered the five colours given in reverse order.
C17_Witness ==
    /\ Called("get_color_id")
    /\ fn_input.arg = <<"G", "R", "B", "U", "W">>
    /\ fn_output.value = "WUBRG"

-----------------------------------------------------------------------------
(* What deduplication removes *)

\* the number of tab-separated fields of a line
FieldCount(line) == Cardinality(Positions(RStripNL(line), TAB)) + 1

\* the position after the header and the blank lines that follow it
LeadingEnd(lines) ==
    CHOOSE k \in 2..(Len(lines) + 1) :
        /\ \A i \in 2..(k - 1) : IsBlank(lines[i])
        /\ k <= Len(lines) => ~IsBlank(lines[k])

\* C18: deduplicate_output_file keeps the header and the leading blank lines;
\* of the lines after them it drops every line of fewer than three fields and
\* otherwise only lines whose (Name, ImageFile) pair a later line of three
\* fields or more has; and a second pass leaves the file of the first pass
\* as it is.
C18_DedupRemovesOnlyDuplicates ==
    lastOp = "dedup" =>
        LET old == prevOut.lines
            start == LeadingEnd(old)
            rest == start..Len(old)
        IN  /\ old = <<>> => outLines = <<>>
            /\ old # <<>> =>
                  /\ Len(outLines) >= start - 1
                  /\ SubSeq(outLines, 1, start - 1) = SubSeq(old, 1, start - 1)
                  /\ \E kept \in SUBSET rest :
                        /\ SubSeq(outLines, start, Len(outLines)) = LinesAt(old, kept)
                        /\ \A i \in kept : FieldCount(old[i]) >= 3
                        /\ \A i \in rest \ kept :
                              \/ FieldCount(old[i]) < 3
                              \/ \E j \in rest :
                                    /\ j > i
                                    /\ FieldCount(old[j]) >= 3
                                    /\ KeyAt(old, j) = KeyAt(old, i)
            /\ calls >= 2 => outLines = old

\* A second pass over a file from which the first pass dropped a blank line
\* between records and an earlier line of a pair.
C18_Witness ==
    /\ lastOp = "dedup"
    /\ calls = 2
    /\ snap.out.lines =
           <<HeaderLine \o NL, NL, "A\ts\tk1\tx\n", NL, "A\ts\tk1\ty\n">>
    /\ outLines = <<HeaderLine \o NL, NL, "A\ts\tk1\ty\n">>

=============================================================================
